---- MODULE Spec2Model ----
(***************************************************************************)
(* The API key lifecycle engine of src/src/api-keys/api-keys.service.ts   *)
(* (ApiKeysService: generate, list, revoke, rotate) over the Key Store    *)
(* (apiKeyModel) and the Audit Log (accessLogModel).                      *)
(*                                                                         *)
(* Every request is an async handler; between two awaited persistence     *)
(* calls other requests may run.  A request is therefore modelled as a    *)
(* process that takes one step per awaited persistence call; the          *)
(* synchronous code that follows an await belongs to the same step.       *)
(*                                                                         *)
(* The file defines the class twice: the first definition (lines 19-274)  *)
(* runs rotate in a transaction, the second (lines 276-464) runs it as a   *)
(* sequence of separate writes that starts with a call of generate.       *)
(* generate, list, revoke and findKeyOrFail are the same in both.  Which   *)
(* class a deployment runs is not decided by the source; the variable      *)
(* build holds it.  Spec runs the first class and SequenceSpec the second, *)
(* both with requests in parallel; SeqSpec and WideSpec start from either. *)
(***************************************************************************)
EXTENDS Integers, Sequences, FiniteSets, TLC

\* ------------------------------------------------------------------ bounds
\* Request slots that may be in flight at once in Spec.
NumProcs == 2
\* Requests served in one behaviour of Spec.
MaxRequests == 3
\* Requests served in one behaviour of SeqSpec (one request at a time).
MaxSeqRequests == 5
\* Requests served in one behaviour of WideSpec (one request at a time).
MaxWideRequests == 3
\* Requests started in one behaviour of FairSpec.
MaxFairRequests == 3
\* Requests served in one behaviour of TwoOwnerSpec (one request at a time).
MaxTwoOwnerRequests == 4
\* Register and Login requests started in one behaviour of AuthSpec.
MaxAuthRequests == 3
\* Parallel Generate attempts of BurstSpec.
NumBurst == 4

\* --------------------------------------------------------- program constants
MAX_ACTIVE_KEYS == 3

\* null (expiresAt: null, revokedAt of a key never revoked); dates are >= 1.
Null == 0

\* An ObjectId is a natural number >= 1; its 24-hex-digit string form is the
\* tagged pair made by toString.  A string that is no ObjectId carries the
\* tag "bad".
toString(oid) == <<"hex", oid>>

IsValid(str) == str[1] = "hex"

ObjectId(str) == str[2]

BadId == <<"bad", 0>>

\* The accounts (ObjectIds of users); a caller identity is toString of one.
Users == {1, 2}

\* dto.name / dto.reason when the field is absent.
Undefined == <<"undefined">>

Names == {<<"K1">>}

\* dto.reason of a Revoke: absent or a string.
Reasons == {Undefined, <<"Testing">>}

\* dto.name of a Rotate: absent, the empty string (IsString, IsOptional and
\* MaxLength(50) accept it) or a name.
RotateNames == {Undefined, <<>>, <<"Rotated Key">>}

\* ------------------------------------------------------------ Secret Codec
\* `ppm_${crypto.randomUUID().replace(/-/g, '')}`: the tag, the first 8 hex
\* digits and the other 24 hex digits of a fresh uuid.
RawKey(uuid) == <<"ppm_", <<"head", uuid>>, <<"tail", uuid>>>>

\* rawKey.substring(0, 12): the tag and the first 8 hex digits.
KeyPrefix(rawKey) == SubSeq(rawKey, 1, 2)

\* bcrypt.hash(rawKey, 10): one-way, modelled as a constructor.
BcryptHash(rawKey) == <<"$2b$10$", rawKey>>

NoSecret == <<>>

\* The two ApiKeysService classes of the file: "transaction" is the one of
\* lines 19-274, "sequence" the one of lines 276-464.
Builds == {"transaction", "sequence"}

VARIABLES
    keys,     \* the Key Store: keys[i] is the document with _id = i
    logs,     \* the Audit Log, in append order
    procs,    \* the request slots: the request each one serves
    clock,    \* the value the next new Date() returns
    started,  \* how many requests have been accepted
    build,    \* which of the file's two ApiKeysService classes is running
    userModel, \* the users collection: userModel[i] is the user with _id = i
    auth      \* the request slots of AuthService

vars == <<keys, logs, procs, clock, started, build, userModel, auth>>

\* ------------------------------------------------------------------ state
NoDoc ==
    [id |-> 0, userId |-> 0, name |-> Undefined, status |-> "NONE",
     keyHash |-> NoSecret, keyPrefix |-> NoSecret, expiresAt |-> Null,
     revokedAt |-> Null, createdAt |-> Null]

Idle ==
    [op |-> "none", pc |-> "idle", seq |-> 0, userId |-> toString(0),
     keyId |-> BadId, name |-> Undefined, reason |-> Undefined,
     activeCount |-> 0, rawKey |-> NoSecret, doc |-> NoDoc,
     newDoc |-> NoDoc, session |-> "none", result |-> "none", out |-> <<>>]

KeyIds == 1..Len(keys)

\* CountActive with the status filter left out of the query.
CountAllKeys(owner) ==
    Cardinality({i \in KeyIds : keys[i].userId = owner})

\* CountActive without the userId in the filter: one quota for all accounts.
CountActiveEveryOwner(owner) ==
    Cardinality({i \in KeyIds : keys[i].status = "ACTIVE"})

\* apiKeyModel.countDocuments({ userId, status: ACTIVE })
CountActive(owner) ==
    Cardinality({i \in KeyIds : keys[i].userId = owner /\ keys[i].status = "ACTIVE"})

Free(p) == procs[p].pc \in {"idle", "done", "failed"}

InFlight(p) == ~Free(p)

\* The slot a new request takes: the lowest free one.
Slot(p) == Free(p) /\ \A q \in DOMAIN procs : q < p => ~Free(q)

\* The key id strings a caller may present: malformed, every existing id and
\* one well-formed id that names no document yet.
KeyIdInputs == {BadId} \cup {toString(i) : i \in 1..(Len(keys) + 1)}

Request(op, userId, keyId) ==
    [Idle EXCEPT !.op = op, !.seq = started + 1, !.userId = userId,
                 !.keyId = keyId]

\* LogEntry with the metadata dropped.
LogEntryBare(apiKeyId, userId, action, metadata) ==
    [apiKeyId |-> apiKeyId, userId |-> ObjectId(userId), action |-> action,
     metadata |-> <<>>]

\* accessLogModel.create({ apiKeyId, userId, action, metadata }); the
\* ipAddress, which no operation reads back, is left out.
LogEntry(apiKeyId, userId, action, metadata) ==
    [apiKeyId |-> apiKeyId, userId |-> ObjectId(userId), action |-> action,
     metadata |-> metadata]

\* A slot of AuthService that serves no request.
AuthIdle ==
    [op |-> "none", pc |-> "idle", seq |-> 0, email |-> <<>>,
     password |-> <<>>, user |-> Null, passwordHash |-> NoSecret,
     result |-> "none", message |-> <<>>, out |-> <<>>]

Init ==
    /\ keys = <<>>
    /\ logs = <<>>
    /\ procs = [p \in 1..NumProcs |-> Idle]
    /\ clock = 1
    /\ started = 0
    /\ userModel = <<>>
    /\ auth = [p \in 1..NumProcs |-> AuthIdle]
    /\ build = "transaction"

\* QuotaReached comparing with > instead of >=.
QuotaReachedStrict(activeCount) == activeCount > MAX_ACTIVE_KEYS

\* if (activeCount >= MAX_ACTIVE_KEYS) throw new BadRequestException(...)
QuotaReached(activeCount) == activeCount >= MAX_ACTIVE_KEYS

\* --------------------------------------------------------------- results
\* The data of the answer to a Generate: the new key's public fields and,
\* this once, the raw key.
GenerateData(apiKey, rawKey) ==
    [id |-> apiKey.id, name |-> apiKey.name, keyPrefix |-> apiKey.keyPrefix,
     key |-> rawKey, status |-> apiKey.status, expiresAt |-> apiKey.expiresAt,
     createdAt |-> apiKey.createdAt]

\* The data of the answer to a Revoke.
RevokeData(apiKey) ==
    [id |-> apiKey.id, name |-> apiKey.name, keyPrefix |-> apiKey.keyPrefix,
     status |-> apiKey.status, revokedAt |-> apiKey.revokedAt]

\* The data of the answer to a Rotate.
RotateData(newApiKey, rawKey, oldApiKey) ==
    [newKey |-> GenerateData(newApiKey, rawKey),
     oldKey |-> RevokeData(oldApiKey)]

\* ------------------------------------------------------------- generate
\* generate, to its first await and the synchronous code after it:
\* countDocuments, the quota check, the raw key.
GenerateCount(p, userId, name) ==
    /\ Free(p)
    /\ LET n == CountActive(ObjectId(userId))
           r == [Request("generate", userId, BadId) EXCEPT
                    !.name = name, !.activeCount = n]
       IN procs' = [procs EXCEPT ![p] =
              IF QuotaReached(n)
              THEN [r EXCEPT !.pc = "failed", !.result = "QuotaExceeded"]
              ELSE [r EXCEPT !.pc = "insert", !.rawKey = RawKey(r.seq)]]
    /\ started' = started + 1
    /\ UNCHANGED <<userModel, auth, build, keys, logs, clock>>

\* NewKey with the caller's name dropped and an expiry date set.
NewKeyExpiring(id, rawKey, name, userId) ==
    [id |-> id, userId |-> ObjectId(userId), name |-> Undefined,
     status |-> "ACTIVE", keyHash |-> BcryptHash(rawKey),
     keyPrefix |-> KeyPrefix(rawKey), expiresAt |-> clock + 1,
     revokedAt |-> Null, createdAt |-> clock]

\* NewKey storing the raw key where its hash belongs.
NewKeyPlain(id, rawKey, name, userId) ==
    [id |-> id, userId |-> ObjectId(userId), name |-> name,
     status |-> "ACTIVE", keyHash |-> rawKey,
     keyPrefix |-> KeyPrefix(rawKey), expiresAt |-> Null,
     revokedAt |-> Null, createdAt |-> clock]

\* The document apiKeyModel.create stores for a new key.
NewKey(id, rawKey, name, userId) ==
    [id |-> id, userId |-> ObjectId(userId), name |-> name,
     status |-> "ACTIVE", keyHash |-> BcryptHash(rawKey),
     keyPrefix |-> KeyPrefix(rawKey), expiresAt |-> Null,
     revokedAt |-> Null, createdAt |-> clock]

\* await this.apiKeyModel.create({...})
GenerateInsert(p) ==
    /\ procs[p].op = "generate" /\ procs[p].pc = "insert"
    /\ LET apiKey == NewKey(Len(keys) + 1, procs[p].rawKey, procs[p].name,
                            procs[p].userId)
       IN /\ keys' = Append(keys, apiKey)
          /\ procs' = [procs EXCEPT ![p].pc = "log", ![p].newDoc = apiKey]
    /\ clock' = clock + 1
    /\ UNCHANGED <<userModel, auth, build, logs, started>>

\* await this.logAccess(apiKey._id, userId, GENERATED, ipAddress); return
GenerateLog(p) ==
    /\ procs[p].op = "generate" /\ procs[p].pc = "log"
    /\ logs' = Append(logs, LogEntry(procs[p].newDoc.id, procs[p].userId,
                                     "GENERATED", <<>>))
    /\ procs' = [procs EXCEPT ![p].pc = "done", ![p].result = "ok",
           ![p].out = <<GenerateData(procs[p].newDoc, procs[p].rawKey)>>]
    /\ UNCHANGED <<userModel, auth, build, keys, clock, started>>

\* ----------------------------------------------------------------- list
\* The fields list() maps each document to (the query selects -keyHash).
ListItem(key) ==
    [id |-> key.id, name |-> key.name, keyPrefix |-> key.keyPrefix,
     status |-> key.status, expiresAt |-> key.expiresAt,
     createdAt |-> key.createdAt, revokedAt |-> key.revokedAt]

\* SortNewestFirst with the sort direction reversed.
RECURSIVE SortOldestFirst(_)
SortOldestFirst(ids) ==
    IF ids = {} THEN <<>>
    ELSE LET top == CHOOSE i \in ids : \A j \in ids :
                        \/ keys[i].createdAt < keys[j].createdAt
                        \/ keys[i].createdAt = keys[j].createdAt /\ i <= j
         IN <<top>> \o SortOldestFirst(ids \ {top})

\* find({ userId }).sort({ createdAt: -1 }): the owner's documents, newest
\* first; documents of equal createdAt in insertion order.
RECURSIVE SortNewestFirst(_)
SortNewestFirst(ids) ==
    IF ids = {} THEN <<>>
    ELSE LET top == CHOOSE i \in ids : \A j \in ids :
                        \/ keys[i].createdAt > keys[j].createdAt
                        \/ keys[i].createdAt = keys[j].createdAt /\ i <= j
         IN <<top>> \o SortNewestFirst(ids \ {top})

\* ListByOwner with the userId filter left out of the query.
ListEveryOwner(owner) ==
    LET ids == SortNewestFirst(KeyIds)
    IN [n \in 1..Len(ids) |-> ListItem(keys[ids[n]])]

ListByOwner(owner) ==
    LET ids == SortNewestFirst({i \in KeyIds : keys[i].userId = owner})
    IN [n \in 1..Len(ids) |-> ListItem(keys[ids[n]])]

\* List writing a USED event for every call.
ListLogged(p, userId) ==
    /\ Free(p)
    /\ procs' = [procs EXCEPT ![p] =
           [Request("list", userId, BadId) EXCEPT
               !.pc = "done", !.result = "ok",
               !.out = ListByOwner(ObjectId(userId))]]
    /\ logs' = Append(logs, LogEntry(0, userId, "USED", <<>>))
    /\ started' = started + 1
    /\ UNCHANGED <<userModel, auth, build, keys, clock>>

\* list(): one awaited query and the mapping of its result.
List(p, userId) ==
    /\ Free(p)
    /\ procs' = [procs EXCEPT ![p] =
           [Request("list", userId, BadId) EXCEPT
               !.pc = "done", !.result = "ok",
               !.out = ListByOwner(ObjectId(userId))]]
    /\ started' = started + 1
    /\ UNCHANGED <<userModel, auth, build, keys, logs, clock>>

\* ------------------------------------------------------- findKeyOrFail
\* FindKeyOrFail without the Types.ObjectId.isValid check.
FindKeyOrFailUnvalidated(keyId, userId) ==
    IF ObjectId(keyId) \notin KeyIds THEN "NotFound"
    ELSE IF toString(keys[ObjectId(keyId)].userId) # userId THEN "AccessDenied"
    ELSE "ok"

\* FindKeyOrFail without the comparison of the key's owner with the caller.
FindKeyOrFailAnyOwner(keyId, userId) ==
    IF ~IsValid(keyId) THEN "InvalidIdentity"
    ELSE IF ObjectId(keyId) \notin KeyIds THEN "NotFound"
    ELSE "ok"

\* The error findKeyOrFail throws, "ok" when it returns the document.
FindKeyOrFail(keyId, userId) ==
    IF ~IsValid(keyId) THEN "InvalidIdentity"
    ELSE IF ObjectId(keyId) \notin KeyIds THEN "NotFound"
    ELSE IF toString(keys[ObjectId(keyId)].userId) # userId THEN "AccessDenied"
    ELSE "ok"

\* ---------------------------------------------------------------- revoke
\* RevokeOutcome without the status check.
RevokeOutcomeUnchecked(keyId, userId) == FindKeyOrFail(keyId, userId)

\* The checks revoke makes before it changes anything: findKeyOrFail, then
\* the status check.  "ok" when all pass.
RevokeOutcome(keyId, userId) ==
    LET found == FindKeyOrFail(keyId, userId)
    IN IF found # "ok" THEN found
       ELSE IF keys[ObjectId(keyId)].status = "REVOKED" THEN "AlreadyRevoked"
       ELSE "ok"

\* The document findById returned, when it returned one.
Found(keyId) ==
    IF IsValid(keyId) /\ ObjectId(keyId) \in KeyIds
    THEN keys[ObjectId(keyId)] ELSE NoDoc

\* revoke, to its first await and the synchronous code after it:
\* findKeyOrFail, the status check, status and revokedAt set on the document
\* in memory.
RevokeFind(p, userId, keyId, reason) ==
    /\ Free(p)
    /\ LET outcome == RevokeOutcome(keyId, userId)
           r == [Request("revoke", userId, keyId) EXCEPT
                    !.reason = reason, !.doc = Found(keyId)]
       IN IF outcome # "ok"
          THEN /\ procs' = [procs EXCEPT ![p] =
                      [r EXCEPT !.pc = "failed", !.result = outcome]]
               /\ clock' = clock
          ELSE /\ procs' = [procs EXCEPT ![p] =
                      [r EXCEPT !.pc = "save",
                                !.doc.status = "REVOKED",
                                !.doc.revokedAt = clock]]
               /\ clock' = clock + 1
    /\ started' = started + 1
    /\ UNCHANGED <<userModel, auth, build, keys, logs>>

\* Save flipping the stored status instead of setting it.
SaveFlip(doc) ==
    [keys EXCEPT ![doc.id].status =
                     IF keys[doc.id].status = "REVOKED" THEN "ACTIVE"
                     ELSE doc.status,
                 ![doc.id].revokedAt = doc.revokedAt]

\* Save writing the status and leaving revokedAt as stored.
SaveStatusOnly(doc) ==
    [keys EXCEPT ![doc.id].status = doc.status]

\* Save writing revokedAt and leaving the status as stored.
SaveRevokedAtOnly(doc) ==
    [keys EXCEPT ![doc.id].revokedAt = doc.revokedAt]

\* Save selecting by the owner instead of the _id.
SaveAllOfOwner(doc) ==
    [i \in 1..Len(keys) |->
        IF keys[i].userId = doc.userId
        THEN [keys[i] EXCEPT !.status = doc.status,
                             !.revokedAt = doc.revokedAt]
        ELSE keys[i]]

\* document.save(): the modified paths of the document in memory are $set
\* on the stored document with that _id, whatever it holds by now.
Save(doc) ==
    [keys EXCEPT ![doc.id].status = doc.status,
                 ![doc.id].revokedAt = doc.revokedAt]

\* await apiKey.save()
RevokeSave(p) ==
    /\ procs[p].op = "revoke" /\ procs[p].pc = "save"
    /\ keys' = Save(procs[p].doc)
    /\ procs' = [procs EXCEPT ![p].pc = "log"]
    /\ UNCHANGED <<userModel, auth, build, logs, clock, started>>

\* RevokeLog writing the event as an upsert on the credential id.
RevokeLogUpsert(p) ==
    /\ procs[p].op = "revoke" /\ procs[p].pc = "log"
    /\ LET e == LogEntry(procs[p].doc.id, procs[p].userId, "REVOKED",
                         <<<<"reason", procs[p].reason>>>>)
           old == {j \in 1..Len(logs) : logs[j].apiKeyId = e.apiKeyId}
       IN logs' = IF old = {} THEN Append(logs, e)
                  ELSE [j \in 1..Len(logs) |->
                           IF j \in old THEN e ELSE logs[j]]
    /\ procs' = [procs EXCEPT ![p].pc = "done", ![p].result = "ok",
                              ![p].out = <<RevokeData(procs[p].doc)>>]
    /\ UNCHANGED <<userModel, auth, build, keys, clock, started>>

\* await this.logAccess(apiKey._id, userId, REVOKED, ipAddress, { reason });
\* return
RevokeLog(p) ==
    /\ procs[p].op = "revoke" /\ procs[p].pc = "log"
    /\ logs' = Append(logs, LogEntry(procs[p].doc.id, procs[p].userId,
                          "REVOKED", <<<<"reason", procs[p].reason>>>>))
    /\ procs' = [procs EXCEPT ![p].pc = "done", ![p].result = "ok",
                              ![p].out = <<RevokeData(procs[p].doc)>>]
    /\ UNCHANGED <<userModel, auth, build, keys, clock, started>>

\* ---------------------------------------------------------------- rotate
\* RotateOutcome without the status check.
RotateOutcomeUnchecked(keyId, userId) == FindKeyOrFail(keyId, userId)

\* The checks rotate makes before it changes anything: findKeyOrFail, then
\* the status check.  "ok" when all pass.
RotateOutcome(keyId, userId) ==
    LET found == FindKeyOrFail(keyId, userId)
    IN IF found # "ok" THEN found
       ELSE IF keys[ObjectId(keyId)].status = "REVOKED" THEN "AlreadyRevoked"
       ELSE "ok"

\* rotate, to its second await: findKeyOrFail and the status check; then
\* connection.startSession() (lines 161-166), or the call of generate, which
\* issues its countDocuments (lines 400-402, 311).
RotateFind(p, userId, keyId, name) ==
    /\ Free(p)
    /\ LET outcome == RotateOutcome(keyId, userId)
           r == [Request("rotate", userId, keyId) EXCEPT
                    !.name = name, !.doc = Found(keyId)]
       IN procs' = [procs EXCEPT ![p] =
              IF outcome # "ok"
              THEN [r EXCEPT !.pc = "failed", !.result = outcome]
              ELSE IF build = "transaction"
              THEN [r EXCEPT !.pc = "txn", !.session = "open",
                             !.rawKey = RawKey(r.seq)]
              ELSE [r EXCEPT !.pc = "count"]]
    /\ started' = started + 1
    /\ UNCHANGED <<userModel, auth, build, keys, logs, clock>>

\* NewKeyName falling back to the old name without the suffix.
NewKeyNameKeepOld(name, oldName) ==
    IF name = Undefined \/ name = <<>> THEN oldName
    ELSE name

\* dto.name || `${oldApiKey.name} (rotated)`
NewKeyName(name, oldName) ==
    IF name = Undefined \/ name = <<>> THEN oldName \o <<" (rotated)">>
    ELSE name

\* session.withTransaction(...) committing: the old key saved as REVOKED, the
\* new key created and the ROTATED event created become visible together;
\* then session.endSession().
RotateCommit(p) ==
    /\ procs[p].op = "rotate" /\ procs[p].pc = "txn"
    /\ LET oldApiKey == [procs[p].doc EXCEPT !.status = "REVOKED",
                                             !.revokedAt = clock]
           newApiKey == [NewKey(Len(keys) + 1, procs[p].rawKey,
                                NewKeyName(procs[p].name, oldApiKey.name),
                                procs[p].userId)
                         EXCEPT !.createdAt = clock + 1]
       IN /\ keys' = Append(Save(oldApiKey), newApiKey)
          /\ logs' = Append(logs, LogEntry(oldApiKey.id, procs[p].userId,
                        "ROTATED", <<<<"newKeyId", toString(newApiKey.id)>>>>))
          /\ procs' = [procs EXCEPT ![p].pc = "done", ![p].result = "ok",
                                    ![p].doc = oldApiKey,
                                    ![p].newDoc = newApiKey,
                                    ![p].session = "ended",
                                    ![p].out = <<RotateData(newApiKey,
                                                 procs[p].rawKey, oldApiKey)>>]
    /\ clock' = clock + 2
    /\ UNCHANGED <<userModel, auth, build, started>>

\* The rotate of lines 388-423, inside its call of generate: the result of
\* countDocuments, the quota check, the raw key (lines 311-325; the uuidv4
\* of line 323, which the file does not import, is taken to return a fresh
\* uuid as crypto.randomUUID of line 49 does).
RotateCount(p) ==
    /\ procs[p].op = "rotate" /\ procs[p].pc = "count"
    /\ LET n == CountActive(ObjectId(procs[p].userId))
       IN procs' = [procs EXCEPT ![p] =
              IF QuotaReached(n)
              THEN [procs[p] EXCEPT !.activeCount = n, !.pc = "failed",
                                    !.result = "QuotaExceeded"]
              ELSE [procs[p] EXCEPT !.activeCount = n, !.pc = "insert",
                                    !.rawKey = RawKey(procs[p].seq)]]
    /\ UNCHANGED <<userModel, auth, build, keys, logs, clock, started>>

\* generate's apiKeyModel.create for { name: newKeyName } (lines 327-334).
RotateInsert(p) ==
    /\ procs[p].op = "rotate" /\ procs[p].pc = "insert"
    /\ LET newApiKey == NewKey(Len(keys) + 1, procs[p].rawKey,
                               NewKeyName(procs[p].name, procs[p].doc.name),
                               procs[p].userId)
       IN /\ keys' = Append(keys, newApiKey)
          /\ procs' = [procs EXCEPT ![p].pc = "generated",
                                    ![p].newDoc = newApiKey]
    /\ clock' = clock + 1
    /\ UNCHANGED <<userModel, auth, build, logs, started>>

\* generate's logAccess(GENERATED) and return (lines 337-339); then the old
\* key in memory is set REVOKED with revokedAt = new Date() (lines 409-410).
RotateGenerated(p) ==
    /\ procs[p].op = "rotate" /\ procs[p].pc = "generated"
    /\ logs' = Append(logs, LogEntry(procs[p].newDoc.id, procs[p].userId,
                                     "GENERATED", <<>>))
    /\ procs' = [procs EXCEPT ![p].pc = "save",
                              ![p].doc.status = "REVOKED",
                              ![p].doc.revokedAt = clock]
    /\ clock' = clock + 1
    /\ UNCHANGED <<userModel, auth, build, keys, started>>

\* await oldApiKey.save() (line 411)
RotateSave(p) ==
    /\ procs[p].op = "rotate" /\ procs[p].pc = "save"
    /\ keys' = Save(procs[p].doc)
    /\ procs' = [procs EXCEPT ![p].pc = "log"]
    /\ UNCHANGED <<userModel, auth, build, logs, clock, started>>

\* await this.logAccess(oldApiKey._id, userId, ROTATED, ipAddress,
\* { newKeyId }); return (lines 414-422)
RotateLog(p) ==
    /\ procs[p].op = "rotate" /\ procs[p].pc = "log"
    /\ logs' = Append(logs, LogEntry(procs[p].doc.id, procs[p].userId,
                  "ROTATED", <<<<"newKeyId", toString(procs[p].newDoc.id)>>>>))
    /\ procs' = [procs EXCEPT ![p].pc = "done", ![p].result = "ok",
           ![p].out = <<RotateData(procs[p].newDoc, procs[p].rawKey,
                                   procs[p].doc)>>]
    /\ UNCHANGED <<userModel, auth, build, keys, clock, started>>

\* Fail without the finally block of rotate: the session stays open.
FailLeak(p) ==
    /\ InFlight(p)
    /\ procs' = [procs EXCEPT
           ![p].pc = "failed", ![p].result = "PersistenceError"]
    /\ UNCHANGED <<userModel, auth, build, keys, logs, clock, started>>

\* --------------------------------------------------------------- failure
\* The persistence call a request is waiting for throws (timeout, store
\* unavailable): the handler rethrows.  A rotate's transaction is aborted,
\* none of its writes is visible, and its session is ended (finally).
\* (A failure of a request's first call changes nothing in the store and
\* is not modelled.)
Fail(p) ==
    /\ InFlight(p)
    /\ procs' = [procs EXCEPT
           ![p].pc = "failed", ![p].result = "PersistenceError",
           ![p].session = IF procs[p].session = "open" THEN "ended"
                          ELSE procs[p].session]
    /\ UNCHANGED <<userModel, auth, build, keys, logs, clock, started>>

\* ------------------------------------------------------------ AuthService
\* String.prototype.toLowerCase on one character, then on a string.
LowerChar(c) == IF c = "A" THEN "a" ELSE IF c = "B" THEN "b" ELSE c

toLowerCase(str) == [i \in DOMAIN str |-> LowerChar(str[i])]

\* The emails and passwords a caller may send.
Emails == {<<"a", "b">>, <<"A", "B">>, <<"c">>}

Passwords == {<<"p">>, <<"q">>}

Dtos == [email : Emails, password : Passwords]

\* bcrypt.hash(password, 12) with the salt the call draws, and
\* bcrypt.compare(password, hash), which hashes the password again with the
\* salt found in the hash.
BcryptHash12(password, salt) == <<"$2b$12$", salt, password>>

BcryptCompare(password, hash) == BcryptHash12(password, hash[2]) = hash

\* jwtService.sign({ sub: user._id, email: user.email }).
Sign(sub, email) == <<"jwt", sub, email>>

\* userModel.findOne({ email }): the _id of the first user with that email,
\* Null when there is none.  A user's _id is its place in userModel.
FindOne(email) ==
    LET found == {i \in 1..Len(userModel) : userModel[i].email = email}
    IN IF found = {} THEN Null
       ELSE CHOOSE i \in found : \A j \in found : i <= j

AuthFree(p) == auth[p].pc \in {"idle", "done", "failed"}

AuthSlot(p) == AuthFree(p) /\ \A q \in DOMAIN auth : q < p => ~AuthFree(q)

AuthRequest(op, dto) ==
    [AuthIdle EXCEPT !.op = op, !.seq = started + 1, !.email = dto.email,
                     !.password = dto.password]

\* The user document with the email as the caller typed it.
NewUserAsTyped(email, passwordHash) ==
    [email |-> email, passwordHash |-> passwordHash]

\* The document register creates.
NewUser(email, passwordHash) ==
    [email |-> toLowerCase(email), passwordHash |-> passwordHash]

\* register up to its first await: findOne by the lower-cased email, and
\* ConflictException when it finds a user.
RegisterFind(p, dto) ==
    LET existingUser == FindOne(toLowerCase(dto.email))
        req == AuthRequest("register", dto)
    IN /\ auth' = [auth EXCEPT ![p] =
              IF existingUser # Null
              THEN [req EXCEPT !.pc = "failed", !.result = "Conflict",
                               !.message = <<"Email already registered">>]
              ELSE [req EXCEPT !.pc = "hash"]]
       /\ started' = started + 1
       /\ UNCHANGED <<userModel, keys, logs, procs, clock, build>>

\* await bcrypt.hash(dto.password, 12).
RegisterHash(p) ==
    /\ auth[p].op = "register" /\ auth[p].pc = "hash"
    /\ auth' = [auth EXCEPT
           ![p].pc = "create",
           ![p].passwordHash = BcryptHash12(auth[p].password, auth[p].seq)]
    /\ UNCHANGED <<userModel, keys, logs, procs, clock, started, build>>

\* await userModel.create(...), then the token is signed and returned.  When
\* create rejects, register rethrows and no user is stored.
RegisterCreate(p) ==
    /\ auth[p].op = "register" /\ auth[p].pc = "create"
    /\ \/ LET user == NewUser(auth[p].email, auth[p].passwordHash)
          IN /\ userModel' = Append(userModel, user)
             /\ auth' = [auth EXCEPT
                    ![p].pc = "done", ![p].result = "ok",
                    ![p].user = Len(userModel) + 1,
                    ![p].out = <<[accessToken |->
                                   Sign(Len(userModel) + 1, user.email)]>>]
       \/ /\ auth' = [auth EXCEPT
                  ![p].pc = "failed", ![p].result = "PersistenceError"]
          /\ UNCHANGED userModel
    /\ UNCHANGED <<keys, logs, procs, clock, started, build>>

\* login that tells an unknown email from a wrong password.
LoginFindTelling(p, dto) ==
    LET user == FindOne(toLowerCase(dto.email))
        req == AuthRequest("login", dto)
    IN /\ auth' = [auth EXCEPT ![p] =
              IF user = Null
              THEN [req EXCEPT !.pc = "failed", !.result = "Unauthorized",
                               !.message = <<"User not found">>]
              ELSE [req EXCEPT !.pc = "compare", !.user = user]]
       /\ started' = started + 1
       /\ UNCHANGED <<userModel, keys, logs, procs, clock, build>>

\* login up to its first await: findOne by the lower-cased email, and
\* UnauthorizedException when it finds no user.
LoginFind(p, dto) ==
    LET user == FindOne(toLowerCase(dto.email))
        req == AuthRequest("login", dto)
    IN /\ auth' = [auth EXCEPT ![p] =
              IF user = Null
              THEN [req EXCEPT !.pc = "failed", !.result = "Unauthorized",
                               !.message = <<"Invalid credentials">>]
              ELSE [req EXCEPT !.pc = "compare", !.user = user]]
       /\ started' = started + 1
       /\ UNCHANGED <<userModel, keys, logs, procs, clock, build>>

\* await bcrypt.compare(dto.password, user.passwordHash), then
\* UnauthorizedException or the signed token.
LoginCompare(p) ==
    /\ auth[p].op = "login" /\ auth[p].pc = "compare"
    /\ LET user == userModel[auth[p].user]
           isPasswordValid == BcryptCompare(auth[p].password, user.passwordHash)
       IN auth' = [auth EXCEPT ![p] =
              IF ~isPasswordValid
              THEN [auth[p] EXCEPT !.pc = "failed", !.result = "Unauthorized",
                                   !.message = <<"Invalid credentials">>]
              ELSE [auth[p] EXCEPT !.pc = "done", !.result = "ok",
                                   !.out = <<[accessToken |->
                                       Sign(auth[p].user, user.email)]>>]]
    /\ UNCHANGED <<userModel, keys, logs, procs, clock, started, build>>

ArriveRegister ==
    \E p \in DOMAIN auth, dto \in Dtos : AuthSlot(p) /\ RegisterFind(p, dto)

ArriveLogin ==
    \E p \in DOMAIN auth, dto \in Dtos : AuthSlot(p) /\ LoginFind(p, dto)

\* --------------------------------------------------------- specifications
\* A request arrives in the lowest free slot (which slot serves a request
\* makes no difference to the program) and runs to its first await.
ArriveGenerate(users) ==
    \E p \in DOMAIN procs, u \in users, n \in Names :
        Slot(p) /\ GenerateCount(p, toString(u), n)

ArriveList(users) ==
    \E p \in DOMAIN procs, u \in users :
        Slot(p) /\ List(p, toString(u))

ArriveRevoke(users, reasons) ==
    \E p \in DOMAIN procs, u \in users, k \in KeyIdInputs, r \in reasons :
        Slot(p) /\ RevokeFind(p, toString(u), k, r)

ArriveRotate(users, names) ==
    \E p \in DOMAIN procs, u \in users, k \in KeyIdInputs, n \in names :
        Slot(p) /\ RotateFind(p, toString(u), k, n)

\* Spec: the class of lines 19-274 serving requests of any kind by any
\* account, up to NumProcs of them in flight at once; a request in flight
\* runs from one await to the next.
Next ==
    \/ started < MaxRequests /\ ArriveGenerate(Users)
    \/ started < MaxRequests /\ ArriveList(Users)
    \/ started < MaxRequests /\ ArriveRevoke(Users, {Undefined})
    \/ started < MaxRequests /\ ArriveRotate(Users, {Undefined})
    \/ \E p \in DOMAIN procs : GenerateInsert(p)
    \/ \E p \in DOMAIN procs : GenerateLog(p)
    \/ \E p \in DOMAIN procs : RevokeSave(p)
    \/ \E p \in DOMAIN procs : RevokeLog(p)
    \/ \E p \in DOMAIN procs : RotateCommit(p)
    \/ \E p \in DOMAIN procs : Fail(p)

Spec == Init /\ [][Next]_vars

\* FairSpec: Generate and Rotate requests of account 1 against the class of
\* lines 19-274, in which the promise a rotate awaits inside its transaction
\* settles in the end: session.withTransaction resolves (RotateCommit) or
\* rejects (Fail), it does not stay pending for ever.
FairNext ==
    \/ started < MaxFairRequests /\ ArriveGenerate({1})
    \/ started < MaxFairRequests /\ ArriveRotate({1}, {Undefined})
    \/ \E p \in DOMAIN procs : GenerateInsert(p)
    \/ \E p \in DOMAIN procs : GenerateLog(p)
    \/ \E p \in DOMAIN procs : RotateCommit(p)
    \/ \E p \in DOMAIN procs : Fail(p)

FairSpec ==
    /\ Init /\ [][FairNext]_vars
    /\ \A p \in 1..NumProcs : WF_vars(RotateCommit(p) \/ Fail(p))

\* SequenceSpec: the same for the class of lines 276-464.
SequenceInit ==
    /\ keys = <<>>
    /\ logs = <<>>
    /\ procs = [p \in 1..NumProcs |-> Idle]
    /\ clock = 1
    /\ started = 0
    /\ userModel = <<>>
    /\ auth = [p \in 1..NumProcs |-> AuthIdle]
    /\ build = "sequence"

SequenceNext ==
    \/ started < MaxRequests /\ ArriveGenerate(Users)
    \/ started < MaxRequests /\ ArriveList(Users)
    \/ started < MaxRequests /\ ArriveRevoke(Users, {Undefined})
    \/ started < MaxRequests /\ ArriveRotate(Users, {Undefined})
    \/ \E p \in DOMAIN procs : GenerateInsert(p)
    \/ \E p \in DOMAIN procs : GenerateLog(p)
    \/ \E p \in DOMAIN procs : RevokeSave(p)
    \/ \E p \in DOMAIN procs : RevokeLog(p)
    \/ \E p \in DOMAIN procs : RotateCount(p)
    \/ \E p \in DOMAIN procs : RotateInsert(p)
    \/ \E p \in DOMAIN procs : RotateGenerated(p)
    \/ \E p \in DOMAIN procs : RotateSave(p)
    \/ \E p \in DOMAIN procs : RotateLog(p)
    \/ \E p \in DOMAIN procs : Fail(p)

SequenceSpec == SequenceInit /\ [][SequenceNext]_vars

\* SeqSpec: either class serving one account that issues one request at a
\* time; each request returns before the next arrives.
SeqInit ==
    /\ keys = <<>>
    /\ logs = <<>>
    /\ procs = [p \in 1..1 |-> Idle]
    /\ clock = 1
    /\ started = 0
    /\ userModel = <<>>
    /\ auth = [p \in 1..NumProcs |-> AuthIdle]
    /\ build \in Builds

SeqNext ==
    \/ started < MaxSeqRequests /\ ArriveGenerate({1})
    \/ started < MaxSeqRequests /\ ArriveList({1})
    \/ started < MaxSeqRequests /\ ArriveRevoke({1}, {Undefined})
    \/ started < MaxSeqRequests /\ ArriveRotate({1}, {Undefined})
    \/ \E p \in DOMAIN procs : GenerateInsert(p)
    \/ \E p \in DOMAIN procs : GenerateLog(p)
    \/ \E p \in DOMAIN procs : RevokeSave(p)
    \/ \E p \in DOMAIN procs : RevokeLog(p)
    \/ \E p \in DOMAIN procs : RotateCommit(p)
    \/ \E p \in DOMAIN procs : RotateCount(p)
    \/ \E p \in DOMAIN procs : RotateInsert(p)
    \/ \E p \in DOMAIN procs : RotateGenerated(p)
    \/ \E p \in DOMAIN procs : RotateSave(p)
    \/ \E p \in DOMAIN procs : RotateLog(p)
    \/ \E p \in DOMAIN procs : Fail(p)

SeqSpec == SeqInit /\ [][SeqNext]_vars

\* WideSpec: either class serving two accounts, one request at a time, with
\* every optional input absent or present.
WideNext ==
    \/ started < MaxWideRequests /\ ArriveGenerate(Users)
    \/ started < MaxWideRequests /\ ArriveList(Users)
    \/ started < MaxWideRequests /\ ArriveRevoke(Users, Reasons)
    \/ started < MaxWideRequests /\ ArriveRotate(Users, RotateNames)
    \/ \E p \in DOMAIN procs : GenerateInsert(p)
    \/ \E p \in DOMAIN procs : GenerateLog(p)
    \/ \E p \in DOMAIN procs : RevokeSave(p)
    \/ \E p \in DOMAIN procs : RevokeLog(p)
    \/ \E p \in DOMAIN procs : RotateCommit(p)
    \/ \E p \in DOMAIN procs : RotateCount(p)
    \/ \E p \in DOMAIN procs : RotateInsert(p)
    \/ \E p \in DOMAIN procs : RotateGenerated(p)
    \/ \E p \in DOMAIN procs : RotateSave(p)
    \/ \E p \in DOMAIN procs : RotateLog(p)
    \/ \E p \in DOMAIN procs : Fail(p)

WideSpec == SeqInit /\ [][WideNext]_vars

\* TwoOwnerSpec: either class serving two accounts, one request at a time,
\* long enough for one account to reach the ceiling before the other
\* account's request.
TwoOwnerNext ==
    \/ started < MaxTwoOwnerRequests /\ ArriveGenerate(Users)
    \/ started < MaxTwoOwnerRequests /\ ArriveList(Users)
    \/ started < MaxTwoOwnerRequests /\ ArriveRevoke(Users, {Undefined})
    \/ started < MaxTwoOwnerRequests /\ ArriveRotate(Users, {Undefined})
    \/ \E p \in DOMAIN procs : GenerateInsert(p)
    \/ \E p \in DOMAIN procs : GenerateLog(p)
    \/ \E p \in DOMAIN procs : RevokeSave(p)
    \/ \E p \in DOMAIN procs : RevokeLog(p)
    \/ \E p \in DOMAIN procs : RotateCommit(p)
    \/ \E p \in DOMAIN procs : RotateCount(p)
    \/ \E p \in DOMAIN procs : RotateInsert(p)
    \/ \E p \in DOMAIN procs : RotateGenerated(p)
    \/ \E p \in DOMAIN procs : RotateSave(p)
    \/ \E p \in DOMAIN procs : RotateLog(p)
    \/ \E p \in DOMAIN procs : Fail(p)

TwoOwnerSpec == SeqInit /\ [][TwoOwnerNext]_vars

\* AuthSpec: Register and Login requests, up to NumProcs of them in flight
\* at once.
AuthNext ==
    \/ started < MaxAuthRequests /\ ArriveRegister
    \/ started < MaxAuthRequests /\ ArriveLogin
    \/ \E p \in DOMAIN auth : RegisterHash(p)
    \/ \E p \in DOMAIN auth : RegisterCreate(p)
    \/ \E p \in DOMAIN auth : LoginCompare(p)

AuthSpec == Init /\ [][AuthNext]_vars

\* BurstSpec: NumBurst Generate requests against an empty store, each in a
\* slot of its own, interleaved in every possible way.  generate is the same
\* in both classes, so one of them stands for both.
BurstInit ==
    /\ keys = <<>>
    /\ logs = <<>>
    /\ procs = [p \in 1..NumBurst |-> Idle]
    /\ clock = 1
    /\ started = 0
    /\ userModel = <<>>
    /\ auth = [p \in 1..NumProcs |-> AuthIdle]
    /\ build = "transaction"

BurstArrive ==
    \E p \in DOMAIN procs, u \in Users, n \in Names :
        /\ procs[p].pc = "idle"
        /\ \A q \in DOMAIN procs : q < p => procs[q].pc # "idle"
        /\ GenerateCount(p, toString(u), n)

BurstNext ==
    \/ BurstArrive
    \/ \E p \in DOMAIN procs : GenerateInsert(p)
    \/ \E p \in DOMAIN procs : GenerateLog(p)
    \/ \E p \in DOMAIN procs : Fail(p)

BurstSpec == BurstInit /\ [][BurstNext]_vars

\* =================================================================== claims
\* The owner's ACTIVE credentials, read off the Key Store.
ActiveOf(owner) ==
    {i \in 1..Len(keys) : keys[i].userId = owner /\ keys[i].status = "ACTIVE"}

\* The audit events of the given actions that reference credential i.
EventsOf(i, actions) ==
    {j \in 1..Len(logs) : logs[j].apiKeyId = i /\ logs[j].action \in actions}

\* In this step a new request arrived in slot p.
Arrived(p) == procs'[p].seq # procs[p].seq

\* In this step the request in slot p went from one place to another.
Moved(p, op, from, to) ==
    /\ procs[p].op = op /\ procs[p].pc = from
    /\ procs'[p].seq = procs[p].seq /\ procs'[p].pc = to

\* C1 (as claimed): in every reachable state every owner has at most 3
\* ACTIVE credentials.  Refuted under BurstSpec: four Generate requests of
\* one owner each count fewer than 3 before any of them inserts.
C1_QuotaHolds ==
    \A u \in Users : Cardinality(ActiveOf(u)) <= 3

\* C2 (as claimed): when more than 3 Generate requests of one owner with no
\* credentials run concurrently and none meets a persistence failure,
\* exactly 3 succeed and every other one fails with QuotaExceeded.
C2_ExactlyThreeSucceed ==
    ( /\ Cardinality(DOMAIN procs) > 3
      /\ \A p \in DOMAIN procs :
            /\ procs[p].op = "generate"
            /\ procs[p].userId = toString(1)
            /\ procs[p].result \in {"ok", "QuotaExceeded"} )
    => Cardinality({p \in DOMAIN procs : procs[p].result = "ok"}) = 3

\* C3: a Generate call that observes 3 or more ACTIVE credentials fails with
\* QuotaExceeded in the step that observed them, and that step changes
\* neither the Key Store nor the Audit Log; a Generate call that observes
\* fewer than 3 never ends with QuotaExceeded.
C3_QuotaRejection ==
    [][\A p \in DOMAIN procs :
          (procs'[p] # procs[p] /\ procs'[p].op = "generate") =>
              IF procs'[p].activeCount >= 3
              THEN /\ Arrived(p)
                   /\ procs'[p].pc = "failed"
                   /\ procs'[p].result = "QuotaExceeded"
                   /\ procs'[p].newDoc = NoDoc
                   /\ keys' = keys
                   /\ logs' = logs
              ELSE /\ procs'[p].result # "QuotaExceeded"
                   /\ Arrived(p) => procs'[p].pc = "insert"]_vars

C3_Witness ==
    \E p \in DOMAIN procs :
        /\ procs[p].op = "generate"
        /\ procs[p].activeCount = 3
        /\ procs[p].result = "QuotaExceeded"

\* C4: the insert step of a Generate appends exactly one credential, with an
\* id no credential had, status ACTIVE, the caller as owner, the given name,
\* expiresAt null and no revokedAt, and changes nothing else; the step that
\* completes it appends exactly one GENERATED event referencing that id and
\* owner (the only GENERATED event of that id) and changes no credential;
\* no other step of a Generate changes the store or the log.
C4_GenerateEffect ==
    [][\A p \in DOMAIN procs :
          (procs'[p] # procs[p] /\ procs'[p].op = "generate") =>
              CASE procs'[p].pc = "log" ->
                    /\ Len(keys') = Len(keys) + 1
                    /\ SubSeq(keys', 1, Len(keys)) = keys
                    /\ LET k == keys'[Len(keys')]
                       IN /\ \A i \in 1..Len(keys) : keys[i].id # k.id
                          /\ k.status = "ACTIVE"
                          /\ k.userId = procs[p].userId[2]
                          /\ k.name = procs[p].name
                          /\ k.expiresAt = Null
                          /\ k.revokedAt = Null
                          /\ procs'[p].newDoc = k
                    /\ logs' = logs
                [] procs'[p].pc = "done" ->
                    /\ procs'[p].result = "ok"
                    /\ keys' = keys
                    /\ Len(logs') = Len(logs) + 1
                    /\ SubSeq(logs', 1, Len(logs)) = logs
                    /\ LET e == logs'[Len(logs')]
                       IN /\ e.action = "GENERATED"
                          /\ e.apiKeyId = procs[p].newDoc.id
                          /\ e.userId = procs[p].userId[2]
                          /\ keys[e.apiKeyId].userId = e.userId
                    /\ Cardinality({j \in 1..Len(logs') :
                           /\ logs'[j].action = "GENERATED"
                           /\ logs'[j].apiKeyId = procs[p].newDoc.id}) = 1
                [] OTHER -> keys' = keys /\ logs' = logs]_vars

C4_Witness ==
    \E p \in DOMAIN procs :
        /\ procs[p].op = "generate" /\ procs[p].pc = "done"
        /\ procs[p].result = "ok"
        /\ EventsOf(procs[p].newDoc.id, {"GENERATED"}) # {}

\* C5: only ACTIVE credentials count against the quota.  With one request at
\* a time: a Generate arriving when the owner has 3 ACTIVE credentials fails
\* with QuotaExceeded, one arriving when the owner has fewer (whatever the
\* number of REVOKED ones) goes on to insert, and completes with success and
\* one more ACTIVE credential; a Revoke that saves leaves one ACTIVE
\* credential fewer and completes with success.
C5_OnlyActiveCount ==
    [][\A p \in DOMAIN procs :
          /\ (Arrived(p) /\ procs'[p].op = "generate") =>
                 IF Cardinality(ActiveOf(procs'[p].userId[2])) >= 3
                 THEN /\ procs'[p].pc = "failed"
                      /\ procs'[p].result = "QuotaExceeded"
                 ELSE procs'[p].pc = "insert"
          /\ Moved(p, "generate", "insert", "log") =>
                 Cardinality(ActiveOf(procs[p].userId[2])') =
                     Cardinality(ActiveOf(procs[p].userId[2])) + 1
          /\ Moved(p, "generate", "log", "done") =>
                 procs'[p].result = "ok"
          /\ Moved(p, "revoke", "save", "log") =>
                 Cardinality(ActiveOf(procs[p].userId[2])') =
                     Cardinality(ActiveOf(procs[p].userId[2])) - 1
          /\ Moved(p, "revoke", "log", "done") =>
                 procs'[p].result = "ok"]_vars

\* The end of the scenario: a key of the owner was revoked, and a Generate
\* that then counted 2 succeeded, the owner holding 3 ACTIVE credentials
\* and at least 4 in all.
C5_Witness ==
    \E p \in DOMAIN procs :
        /\ procs[p].op = "generate" /\ procs[p].result = "ok"
        /\ procs[p].activeCount = 2
        /\ Cardinality(ActiveOf(procs[p].userId[2])) = 3
        /\ \E i \in 1..Len(keys) :
              /\ keys[i].userId = procs[p].userId[2]
              /\ keys[i].status = "REVOKED"
              /\ EventsOf(i, {"REVOKED"}) # {}
              /\ i < procs[p].newDoc.id

\* C6: no step removes a credential or makes a REVOKED credential ACTIVE
\* (or anything but REVOKED) again.
C6_StatusMonotonic ==
    [][/\ Len(keys') >= Len(keys)
       /\ \A i \in 1..Len(keys) :
             keys[i].status = "REVOKED" => keys'[i].status = "REVOKED"]_vars

\* A credential that two requests have retired, each having saved it, is
\* REVOKED.
C6_Witness ==
    \E i \in 1..Len(keys) :
        /\ keys[i].status = "REVOKED"
        /\ Cardinality(EventsOf(i, {"REVOKED", "ROTATED"})) >= 2

\* C7 (as claimed): once a credential's revokedAt is set no step writes it
\* again.  Refuted under Spec: two Revoke requests that both read the
\* credential as ACTIVE both save it, the second over the first.
C7_RevokedAtWrittenOnce ==
    [][\A i \in 1..Len(keys) :
          keys[i].revokedAt # Null =>
              keys'[i].revokedAt = keys[i].revokedAt]_vars

\* C8 (as claimed): the audit log holds at most one REVOKED or ROTATED event
\* per credential (at most one Revoke or Rotate of it succeeds).
C8_AtMostOneRetirement ==
    \A i \in 1..Len(keys) :
        Cardinality(EventsOf(i, {"REVOKED", "ROTATED"})) <= 1

\* C9: the outcome of the first step of a Revoke is decided by the first
\* failing check, in this order: malformed id (InvalidIdentity, no document
\* read), no such credential (NotFound), another owner's credential
\* (AccessDenied, whatever its status), REVOKED credential
\* (AlreadyRevoked); when none fails the request goes on to save.
C9_RevokePreconditionOrder ==
    [][\A p \in DOMAIN procs :
          (Arrived(p) /\ procs'[p].op = "revoke") =>
              LET r == procs'[p]
                  k == r.keyId
              IN IF k[1] # "hex"
                 THEN /\ r.pc = "failed" /\ r.result = "InvalidIdentity"
                      /\ r.doc = NoDoc
                 ELSE IF k[2] \notin 1..Len(keys)
                 THEN /\ r.pc = "failed" /\ r.result = "NotFound"
                      /\ r.doc = NoDoc
                 ELSE IF keys[k[2]].userId # r.userId[2]
                 THEN r.pc = "failed" /\ r.result = "AccessDenied"
                 ELSE IF keys[k[2]].status = "REVOKED"
                 THEN r.pc = "failed" /\ r.result = "AlreadyRevoked"
                 ELSE r.pc = "save" /\ r.result = "none"]_vars

\* A Revoke of another owner's credential that is already REVOKED was
\* answered AccessDenied.
C9_Witness ==
    \E p \in DOMAIN procs :
        /\ procs[p].op = "revoke" /\ procs[p].result = "AccessDenied"
        /\ procs[p].doc.status = "REVOKED"
        /\ keys[procs[p].keyId[2]].status = "REVOKED"

\* C10: with one request at a time, a Revoke by the owner of an ACTIVE
\* credential goes on to save it and, once its audit event is appended,
\* returns success with the credential REVOKED in the store; a Revoke by the
\* owner of a REVOKED credential fails with AlreadyRevoked and changes
\* neither store nor log; and no step changes any field of a REVOKED
\* credential.
C10_SecondRevokeFails ==
    [][/\ \A p \in DOMAIN procs :
             LET k == procs'[p].keyId[2]
             IN /\ ( /\ Arrived(p) /\ procs'[p].op = "revoke"
                     /\ k \in 1..Len(keys)
                     /\ keys[k].userId = procs'[p].userId[2] ) =>
                        IF keys[k].status = "REVOKED"
                        THEN /\ procs'[p].pc = "failed"
                             /\ procs'[p].result = "AlreadyRevoked"
                             /\ keys' = keys
                             /\ logs' = logs
                        ELSE procs'[p].pc = "save"
                /\ Moved(p, "revoke", "log", "done") =>
                        /\ procs'[p].result = "ok"
                        /\ keys'[k].status = "REVOKED"
                        /\ keys'[k].revokedAt # Null
       /\ \A i \in 1..Len(keys) :
             keys[i].status = "REVOKED" => keys'[i] = keys[i]]_vars

\* A second Revoke of a credential whose first Revoke succeeded was answered
\* AlreadyRevoked.
C10_Witness ==
    \E p \in DOMAIN procs :
        /\ procs[p].op = "revoke" /\ procs[p].result = "AlreadyRevoked"
        /\ Cardinality(EventsOf(procs[p].keyId[2], {"REVOKED"})) = 1
        /\ keys[procs[p].keyId[2]].revokedAt # Null

\* C11: a Revoke or Rotate of a credential whose owner is not the caller
\* fails with AccessDenied in the step that read the credential; that step
\* changes no credential, creates none, appends no audit event and opens no
\* session, and the request takes no step after it.
C11_AccessDeniedNoMutation ==
    [][\A p \in DOMAIN procs :
          /\ ( /\ Arrived(p) /\ procs'[p].op \in {"revoke", "rotate"}
               /\ procs'[p].keyId[1] = "hex"
               /\ procs'[p].keyId[2] \in 1..Len(keys)
               /\ keys[procs'[p].keyId[2]].userId # procs'[p].userId[2] ) =>
                  /\ procs'[p].pc = "failed"
                  /\ procs'[p].result = "AccessDenied"
                  /\ procs'[p].session = "none"
                  /\ keys' = keys
                  /\ logs' = logs
          /\ (procs[p].result = "AccessDenied" /\ ~Arrived(p)) =>
                  procs'[p] = procs[p]]_vars

\* A Rotate of another owner's ACTIVE credential was answered AccessDenied,
\* and the credential is still ACTIVE.
C11_Witness ==
    \E p \in DOMAIN procs :
        /\ procs[p].op = "rotate" /\ procs[p].result = "AccessDenied"
        /\ procs[p].doc.userId # procs[p].userId[2]
        /\ keys[procs[p].keyId[2]].status = "ACTIVE"
        /\ Len(keys) = 1 /\ Len(logs) = 1

\* C12: the save step of a Revoke sets the credential's status to REVOKED
\* and its revokedAt to a timestamp and changes nothing else in the store
\* or the log; the step that completes the Revoke with success appends
\* exactly one event, with action REVOKED, the credential's id, the caller
\* (the credential's owner) and the supplied reason as its metadata, the
\* only REVOKED event of that credential, and changes no credential; no
\* other step of a Revoke changes the store or the log.
C12_RevokeEffect ==
    [][\A p \in DOMAIN procs :
          (procs'[p] # procs[p] /\ procs'[p].op = "revoke") =>
              LET k == procs[p].keyId[2]
              IN CASE Moved(p, "revoke", "save", "log") ->
                       /\ keys[k].status = "ACTIVE"
                       /\ keys[k].userId = procs[p].userId[2]
                       /\ keys' = [keys EXCEPT ![k].status = "REVOKED",
                                               ![k].revokedAt = keys'[k].revokedAt]
                       /\ keys'[k].revokedAt # Null
                       /\ keys'[k].revokedAt < clock'
                       /\ logs' = logs
                   [] Moved(p, "revoke", "log", "done") ->
                       /\ procs'[p].result = "ok"
                       /\ keys' = keys
                       /\ keys[k].status = "REVOKED"
                       /\ logs' = Append(logs,
                              [apiKeyId |-> k, userId |-> keys[k].userId,
                               action |-> "REVOKED",
                               metadata |-> <<<<"reason", procs[p].reason>>>>])
                       /\ procs[p].userId[2] = keys[k].userId
                       /\ Cardinality(EventsOf(k, {"REVOKED"})') = 1
                   [] OTHER -> keys' = keys /\ logs' = logs]_vars

\* A Revoke with a reason has returned success: the credential is REVOKED
\* and the last audit event carries the reason.
C12_Witness ==
    \E p \in DOMAIN procs :
        /\ procs[p].op = "revoke" /\ procs[p].result = "ok"
        /\ procs[p].reason = <<"Testing">>
        /\ keys[procs[p].keyId[2]].status = "REVOKED"
        /\ logs[Len(logs)].action = "REVOKED"
        /\ logs[Len(logs)].metadata = <<<<"reason", <<"Testing">>>>>>

\* C13 (as claimed): Rotate is all-or-nothing.  With one request at a time:
\* after a Rotate that a persistence failure ended, the old credential is
\* ACTIVE with no revokedAt, no credential made by that Rotate is in the
\* store and no ROTATED event of the old credential is in the log; after a
\* Rotate that returned success the old credential is REVOKED, the new one
\* is in the store and the ROTATED event naming it is in the log.  Refuted
\* under SeqSpec by the class of lines 276-464: a failure of
\* oldApiKey.save() leaves the new credential and its GENERATED event.
C13_RotateAllOrNothing ==
    \A p \in DOMAIN procs :
        procs[p].op = "rotate" =>
            LET k == procs[p].keyId[2]
                new == procs[p].newDoc.id
            IN /\ (procs[p].pc = "failed" /\ procs[p].result = "PersistenceError") =>
                      /\ keys[k].status = "ACTIVE"
                      /\ keys[k].revokedAt = Null
                      /\ new \notin 1..Len(keys)
                      /\ EventsOf(k, {"ROTATED"}) = {}
               /\ procs[p].pc = "done" =>
                      /\ procs[p].result = "ok"
                      /\ keys[k].status = "REVOKED"
                      /\ new \in 1..Len(keys)
                      /\ \E j \in EventsOf(k, {"ROTATED"}) :
                             logs[j].metadata = <<<<"newKeyId", toString(new)>>>>

\* C14 (as claimed): no request observes a Rotate half done.  A List by the
\* same owner that arrived after a Rotate began and returned while that
\* Rotate is still in flight never shows the old and the new credential
\* both ACTIVE, and never shows the old credential as revoked by that
\* Rotate with the new one missing.  Refuted under SequenceSpec: the class
\* of lines 276-464 inserts the new credential before it saves the old one.
C14_NoIntermediateState ==
    \A q \in DOMAIN procs, p \in DOMAIN procs :
        ( /\ procs[q].op = "rotate" /\ InFlight(q)
          /\ procs[p].op = "list" /\ procs[p].pc = "done"
          /\ procs[p].seq > procs[q].seq
          /\ procs[p].userId = procs[q].userId ) =>
            LET out == procs[p].out
                olds == {n \in 1..Len(out) : out[n].id = procs[q].keyId[2]}
                news == {n \in 1..Len(out) : out[n].id = procs[q].newDoc.id}
            IN \A o \in olds :
                  /\ ~ ( /\ out[o].status = "ACTIVE"
                         /\ \E n \in news : out[n].status = "ACTIVE" )
                  /\ ~ ( /\ out[o].status = "REVOKED"
                         /\ out[o].revokedAt = procs[q].doc.revokedAt
                         /\ news = {} )

\* C15 (as claimed): a Rotate is never rejected with QuotaExceeded, and with
\* one request at a time a Rotate of an ACTIVE credential by its owner, who
\* holds exactly 3 ACTIVE credentials, is not rejected at all.  Refuted
\* under SeqSpec by the class of lines 276-464, whose rotate calls generate
\* and with it the quota check.
C15_RotateAtCeiling ==
    \A p \in DOMAIN procs :
        procs[p].op = "rotate" =>
            /\ procs[p].result # "QuotaExceeded"
            /\ ( /\ procs[p].doc.status = "ACTIVE"
                 /\ procs[p].doc.userId = procs[p].userId[2]
                 /\ Cardinality(ActiveOf(procs[p].userId[2])) = 3
                 /\ procs[p].pc = "failed" ) =>
                      procs[p].result = "PersistenceError"

\* C16: with one request at a time, exactly one step of a Rotate adds a
\* credential, and adds exactly one: with an id no credential had (so not
\* the old one's), status ACTIVE, the caller as owner and expiresAt null;
\* and in the step that returns success the old credential is REVOKED with
\* revokedAt set, that new credential is in the store, ACTIVE, and the
\* owner has as many ACTIVE credentials as before the call (in the class of
\* lines 276-464: as its countDocuments read at the start of the call).
C16_RotateResult ==
    [][\A p \in DOMAIN procs :
          (procs'[p] # procs[p] /\ procs'[p].op = "rotate" /\ ~Arrived(p)) =>
              LET k == procs[p].keyId[2]
                  A == procs[p].userId[2]
                  new == procs'[p].newDoc.id
              IN /\ Len(keys') = Len(keys) + 1 <=>
                        \/ Moved(p, "rotate", "txn", "done")
                        \/ Moved(p, "rotate", "insert", "generated")
                 /\ Len(keys') # Len(keys) + 1 => Len(keys') = Len(keys)
                 /\ Len(keys') = Len(keys) + 1 =>
                        /\ \A i \in 1..Len(keys) : keys[i].id # new
                        /\ new # k
                        /\ procs'[p].newDoc = keys'[Len(keys')]
                        /\ keys'[Len(keys')].status = "ACTIVE"
                        /\ keys'[Len(keys')].userId = A
                        /\ keys'[Len(keys')].expiresAt = Null
                        /\ keys'[Len(keys')].revokedAt = Null
                 /\ procs'[p].pc = "done" =>
                        /\ procs'[p].result = "ok"
                        /\ keys'[k].status = "REVOKED"
                        /\ keys'[k].revokedAt # Null
                        /\ new \in 1..Len(keys') /\ new # k
                        /\ keys'[new].status = "ACTIVE"
                        /\ keys'[new].userId = A
                        /\ keys'[new].expiresAt = Null
                        /\ Cardinality(ActiveOf(A)') =
                               IF build = "transaction"
                               THEN Cardinality(ActiveOf(A))
                               ELSE procs[p].activeCount]_vars

\* The scenario of the claim: the owner of three ACTIVE credentials has
\* rotated the second; it is REVOKED, the new one is ACTIVE and the owner
\* still has three ACTIVE credentials.
C16_Witness ==
    \E p \in DOMAIN procs :
        /\ procs[p].op = "rotate" /\ procs[p].result = "ok"
        /\ procs[p].keyId = toString(2)
        /\ keys[2].status = "REVOKED" /\ keys[2].revokedAt # Null
        /\ keys[procs[p].newDoc.id].status = "ACTIVE"
        /\ Cardinality(ActiveOf(procs[p].userId[2])) = 3

\* C17: with one request at a time, the step in which a Rotate returns
\* success appends exactly one audit event: action ROTATED, the old
\* credential's id, the caller (the old credential's owner) as owner, and
\* as metadata the id string of the credential that Rotate created; it is
\* then the only ROTATED event of the old credential.  No other step of a
\* Rotate adds or removes a ROTATED event.
C17_RotatedEvent ==
    [][\A p \in DOMAIN procs :
          (procs'[p] # procs[p] /\ procs'[p].op = "rotate") =>
              LET k == procs[p].keyId[2]
                  new == procs'[p].newDoc.id
              IN IF ~Arrived(p) /\ procs'[p].pc = "done"
                 THEN /\ procs'[p].result = "ok"
                      /\ logs' = Append(logs,
                             [apiKeyId |-> k, userId |-> procs[p].userId[2],
                              action |-> "ROTATED",
                              metadata |-> <<<<"newKeyId", <<"hex", new>>>>>>])
                      /\ new \in 1..Len(keys') /\ new # k
                      /\ keys'[k].userId = procs[p].userId[2]
                      /\ Cardinality(EventsOf(k, {"ROTATED"})') = 1
                 ELSE /\ Len(logs') >= Len(logs)
                      /\ SubSeq(logs', 1, Len(logs)) = logs
                      /\ \A j \in (Len(logs) + 1)..Len(logs') :
                             logs'[j].action # "ROTATED"]_vars

\* In the class of lines 276-464 a Rotate has returned success: the log ends
\* with the GENERATED event of the new credential and the ROTATED event of
\* the old one that names the new one.
C17_Witness ==
    \E p \in DOMAIN procs :
        /\ build = "sequence"
        /\ procs[p].op = "rotate" /\ procs[p].result = "ok"
        /\ Len(logs) >= 2
        /\ logs[Len(logs)].action = "ROTATED"
        /\ logs[Len(logs)].apiKeyId = procs[p].keyId[2]
        /\ logs[Len(logs)].metadata =
               <<<<"newKeyId", toString(procs[p].newDoc.id)>>>>
        /\ logs[Len(logs) - 1].action = "GENERATED"
        /\ logs[Len(logs) - 1].apiKeyId = procs[p].newDoc.id

\* C18 (as claimed): whenever no request is in flight, every credential in
\* the store has an issuance trace in the log: a GENERATED event with its
\* id, or a ROTATED event whose metadata names its id.  Refuted under
\* SeqSpec: a Generate whose create succeeded and whose logAccess failed
\* has returned and left a credential with no trace.
C18_IssuanceTrace ==
    (\A p \in DOMAIN procs : Free(p)) =>
        \A i \in 1..Len(keys) :
            \/ EventsOf(i, {"GENERATED"}) # {}
            \/ \E j \in 1..Len(logs) :
                   /\ logs[j].action = "ROTATED"
                   /\ logs[j].metadata = <<<<"newKeyId", toString(i)>>>>

\* C19: the outcome of the first step of a Rotate is decided by the first
\* failing check, in the order of Revoke: malformed id (InvalidIdentity, no
\* document read), no such credential (NotFound), another owner's
\* credential (AccessDenied, whatever its status), REVOKED credential
\* (AlreadyRevoked).  When one fails, the step changes neither store nor
\* log, the request has no session and takes no further step; when none
\* fails the request goes on and that step changes neither store nor log.
C19_RotatePreconditionOrder ==
    [][\A p \in DOMAIN procs :
          /\ (Arrived(p) /\ procs'[p].op = "rotate") =>
                 LET r == procs'[p]
                     k == r.keyId
                     failed(kind) == /\ r.pc = "failed" /\ r.result = kind
                                     /\ r.session = "none"
                                     /\ r.newDoc = NoDoc
                 IN /\ keys' = keys
                    /\ logs' = logs
                    /\ IF k[1] # "hex"
                       THEN failed("InvalidIdentity") /\ r.doc = NoDoc
                       ELSE IF k[2] \notin 1..Len(keys)
                       THEN failed("NotFound") /\ r.doc = NoDoc
                       ELSE IF keys[k[2]].userId # r.userId[2]
                       THEN failed("AccessDenied")
                       ELSE IF keys[k[2]].status = "REVOKED"
                       THEN failed("AlreadyRevoked")
                       ELSE r.pc \in {"txn", "count"} /\ r.result = "none"
          /\ ( /\ procs[p].op = "rotate" /\ ~Arrived(p)
               /\ procs[p].result \in {"InvalidIdentity", "NotFound",
                                        "AccessDenied", "AlreadyRevoked"} ) =>
                 procs'[p] = procs[p]]_vars

\* A Rotate of another owner's credential that is already REVOKED was
\* answered AccessDenied, not AlreadyRevoked, and opened no session.
C19_Witness ==
    \E p \in DOMAIN procs :
        /\ procs[p].op = "rotate" /\ procs[p].result = "AccessDenied"
        /\ procs[p].doc.status = "REVOKED"
        /\ procs[p].doc.userId # procs[p].userId[2]
        /\ procs[p].session = "none"

\* C20 (as claimed): the credential a Rotate adds is named dto.name when a
\* name is given and the old credential's name followed by " (rotated)"
\* when none is, and no step of a Rotate changes the old credential's name.
\* Refuted under WideSpec by the name "", which the DTO accepts and
\* dto.name || ... treats as absent.
C20_RotateNamingAsClaimed ==
    [][\A p \in DOMAIN procs :
          (procs[p].op = "rotate" /\ procs'[p] # procs[p] /\ ~Arrived(p)) =>
              LET k == procs[p].keyId[2]
              IN /\ keys'[k].name = keys[k].name
                 /\ Len(keys') > Len(keys) =>
                        keys'[Len(keys')].name =
                            IF procs[p].name # Undefined
                            THEN procs[p].name
                            ELSE keys[k].name \o <<" (rotated)">>]_vars

\* C20 (amended): the credential a Rotate adds is named dto.name when a
\* non-empty name is given, and the old credential's name followed by
\* " (rotated)" when no name or the empty string is given; no step of a
\* Rotate changes the old credential's name.
C20_RotateNaming ==
    [][\A p \in DOMAIN procs :
          (procs[p].op = "rotate" /\ procs'[p] # procs[p] /\ ~Arrived(p)) =>
              LET k == procs[p].keyId[2]
              IN /\ keys'[k].name = keys[k].name
                 /\ Len(keys') > Len(keys) =>
                        keys'[Len(keys')].name =
                            IF procs[p].name # Undefined /\ Len(procs[p].name) > 0
                            THEN procs[p].name
                            ELSE keys[k].name \o <<" (rotated)">>]_vars

\* A Rotate given the empty string as name has returned success and its
\* new credential is named after the old one.
C20_Witness ==
    \E p \in DOMAIN procs :
        /\ procs[p].op = "rotate" /\ procs[p].result = "ok"
        /\ procs[p].name = <<>>
        /\ keys[procs[p].keyId[2]].name = <<"K1">>
        /\ keys[procs[p].newDoc.id].name = <<"K1", " (rotated)">>

\* C21: a List returns, from whatever the store holds, exactly the
\* credentials whose owner is the caller, each once and with the status the
\* store holds (ACTIVE or REVOKED), and no item has a keyHash field or
\* carries the credential's hash in another field.
C21_ListOwnKeysOnly ==
    [][\A p \in DOMAIN procs :
          (Arrived(p) /\ procs'[p].op = "list") =>
              LET out == procs'[p].out
                  own == {i \in 1..Len(keys) :
                             keys[i].userId = procs'[p].userId[2]}
              IN /\ procs'[p].pc = "done" /\ procs'[p].result = "ok"
                 /\ {out[n].id : n \in 1..Len(out)} = own
                 /\ Len(out) = Cardinality(own)
                 /\ \A n \in 1..Len(out) :
                        /\ "keyHash" \notin DOMAIN out[n]
                        /\ out[n].status = keys[out[n].id].status
                        /\ out[n].name # keys[out[n].id].keyHash
                        /\ out[n].keyPrefix # keys[out[n].id].keyHash]_vars

\* A List by an owner has returned that owner's credential while the store
\* also holds a credential of the other owner.
C21_Witness ==
    \E p \in DOMAIN procs :
        /\ procs[p].op = "list" /\ procs[p].pc = "done"
        /\ Len(procs[p].out) = 1
        /\ keys[procs[p].out[1].id].userId = procs[p].userId[2]
        /\ \E i \in 1..Len(keys) : keys[i].userId # procs[p].userId[2]

\* C22: the items of a List are in order of createdAt, newest first (each
\* item's createdAt is at least the next one's), and a credential made by a
\* Rotate comes before the credential that Rotate replaced.
C22_ListNewestFirst ==
    [][\A p \in DOMAIN procs :
          (Arrived(p) /\ procs'[p].op = "list") =>
              LET out == procs'[p].out
              IN /\ \A n \in 1..(Len(out) - 1) :
                        out[n].createdAt >= out[n + 1].createdAt
                 /\ \A j \in 1..Len(logs), m \in 1..Len(out), n \in 1..Len(out) :
                        ( /\ logs[j].action = "ROTATED"
                          /\ out[m].id = logs[j].apiKeyId
                          /\ logs[j].metadata = <<<<"newKeyId", <<"hex", out[n].id>>>>>> )
                        => n < m]_vars

\* A List after a Rotate has returned the new credential, ACTIVE, first and
\* the replaced one, REVOKED, second.
C22_Witness ==
    \E p \in DOMAIN procs :
        /\ procs[p].op = "list" /\ procs[p].pc = "done"
        /\ Len(procs[p].out) = 2
        /\ procs[p].out[1].status = "ACTIVE"
        /\ procs[p].out[2].status = "REVOKED"
        /\ procs[p].out[1].createdAt > procs[p].out[2].createdAt
        /\ \E j \in EventsOf(procs[p].out[2].id, {"ROTATED"}) :
               logs[j].metadata =
                   <<<<"newKeyId", toString(procs[p].out[1].id)>>>>

\* C23: the step that serves a List changes no credential and no audit
\* event, and a List takes no other step.
C23_ListPureRead ==
    [][\A p \in DOMAIN procs :
          /\ (Arrived(p) /\ procs'[p].op = "list") =>
                 /\ keys' = keys
                 /\ logs' = logs
                 /\ procs'[p].pc = "done"
          /\ (procs[p].op = "list" /\ ~Arrived(p)) =>
                 procs'[p] = procs[p]]_vars

\* A List has returned a credential from a store and a log that are not
\* empty, while another request is in flight.
C23_Witness ==
    \E p \in DOMAIN procs, q \in DOMAIN procs :
        /\ procs[p].op = "list" /\ procs[p].pc = "done"
        /\ Len(procs[p].out) >= 1
        /\ Len(logs) >= 1
        /\ InFlight(q)

\* C24 (as claimed): in Generate and in Revoke the change of the credential
\* and its audit event stand or fall together.  With one request at a time:
\* after a Generate that a persistence failure ended, the credential it
\* made is not in the store; after a Revoke that a persistence failure
\* ended, the credential is ACTIVE with no revokedAt; after either returned
\* success, the credential's GENERATED or REVOKED event is in the log.
\* Refuted under SeqSpec: a failure of logAccess leaves the credential
\* inserted, or saved as REVOKED, without the event.
C24_AuditPairing ==
    \A p \in DOMAIN procs :
        LET k == procs[p].keyId[2]
            new == procs[p].newDoc.id
            broke == procs[p].pc = "failed"
                         /\ procs[p].result = "PersistenceError"
        IN /\ (procs[p].op = "generate" /\ broke) => new \notin 1..Len(keys)
           /\ (procs[p].op = "revoke" /\ broke) =>
                  /\ keys[k].status = "ACTIVE"
                  /\ keys[k].revokedAt = Null
           /\ (procs[p].op = "generate" /\ procs[p].pc = "done") =>
                  EventsOf(new, {"GENERATED"}) # {}
           /\ (procs[p].op = "revoke" /\ procs[p].pc = "done") =>
                  /\ keys[k].status = "REVOKED"
                  /\ EventsOf(k, {"REVOKED"}) # {}

\* C25: no step removes a credential or changes the id, keyHash, keyPrefix,
\* owner, name, expiresAt or createdAt of one; and a step that changes a
\* credential (its status or revokedAt, then) is a step of a Revoke or
\* Rotate whose target is that credential.
C25_ImmutableFields ==
    [][/\ Len(keys') >= Len(keys)
       /\ \A i \in 1..Len(keys) :
             /\ keys'[i] = [keys[i] EXCEPT !.status = keys'[i].status,
                                           !.revokedAt = keys'[i].revokedAt]
             /\ keys'[i] # keys[i] =>
                    \E p \in DOMAIN procs :
                        /\ procs[p].op \in {"revoke", "rotate"}
                        /\ procs'[p] # procs[p] /\ ~Arrived(p)
                        /\ procs[p].keyId = <<"hex", i>>]_vars

\* One owner's credential has been revoked and still carries the hash and
\* prefix of its raw key, and the other owner's credential is untouched.
C25_Witness ==
    \E i \in 1..Len(keys), j \in 1..Len(keys) :
        /\ keys[i].status = "REVOKED" /\ keys[i].revokedAt # Null
        /\ \E u \in 1..started :
               /\ keys[i].keyHash = BcryptHash(RawKey(u))
               /\ keys[i].keyPrefix = KeyPrefix(RawKey(u))
        /\ keys[j].userId # keys[i].userId
        /\ keys[j].status = "ACTIVE" /\ keys[j].revokedAt = Null

\* C27: every step leaves every audit event that exists in place and
\* unchanged (credential id, owner id, action, metadata); steps only add
\* events at the end.
C27_AuditAppendOnly ==
    [][/\ Len(logs') >= Len(logs)
       /\ \A j \in 1..Len(logs) :
             /\ logs'[j].apiKeyId = logs[j].apiKeyId
             /\ logs'[j].userId = logs[j].userId
             /\ logs'[j].action = logs[j].action
             /\ logs'[j].metadata = logs[j].metadata]_vars

\* The log holds the GENERATED event of a credential and, after it, the
\* REVOKED or ROTATED event of the same credential.
C27_Witness ==
    \E i \in 1..Len(logs), j \in 1..Len(logs) :
        /\ i < j
        /\ logs[i].action = "GENERATED"
        /\ logs[j].action \in {"REVOKED", "ROTATED"}
        /\ logs[j].apiKeyId = logs[i].apiKeyId

\* The raw secrets issued so far.
Secrets == {RawKey(u) : u \in 1..started}

\* C26: in every reachable state no field of a stored credential and no
\* metadata of an audit event is a raw secret; no item of a List, no Revoke
\* answer and no old-credential part of a Rotate answer has a key field or
\* holds a raw secret; and the key of a Generate or Rotate answer is the
\* raw secret made by that very call, whose hash and prefix the new
\* credential stores.
C26_RawSecretNotPersisted ==
    /\ \A i \in 1..Len(keys) :
          /\ keys[i].keyHash \notin Secrets
          /\ keys[i].keyPrefix \notin Secrets
          /\ keys[i].name \notin Secrets
    /\ \A j \in 1..Len(logs) : \A m \in 1..Len(logs[j].metadata) :
          logs[j].metadata[m][2] \notin Secrets
    /\ \A p \in DOMAIN procs : \A n \in 1..Len(procs[p].out) :
          LET o == procs[p].out[n]
              clean(r) == /\ "key" \notin DOMAIN r
                          /\ r.name \notin Secrets
                          /\ r.keyPrefix \notin Secrets
              fresh(r) == /\ r.key = RawKey(procs[p].seq)
                          /\ r.name \notin Secrets
                          /\ keys[r.id].keyHash = BcryptHash(r.key)
                          /\ keys[r.id].keyPrefix = r.keyPrefix
          IN CASE procs[p].op = "generate" -> fresh(o)
               [] procs[p].op = "rotate" -> fresh(o.newKey) /\ clean(o.oldKey)
               [] OTHER -> clean(o)

\* A Rotate has answered with the raw key of its new credential; the store
\* holds the hash of that key and the log the ROTATED event.
C26_Witness ==
    \E p \in DOMAIN procs :
        /\ procs[p].op = "rotate" /\ procs[p].pc = "done"
        /\ procs[p].out[1].newKey.key \in Secrets
        /\ keys[procs[p].newDoc.id].keyHash =
               BcryptHash(procs[p].out[1].newKey.key)
        /\ EventsOf(procs[p].keyId[2], {"ROTATED"}) # {}

\* In this step a new request arrived in slot p of AuthService.
AuthArrived(p) == auth'[p].seq # auth[p].seq

\* In this step the request in slot p of AuthService ended with pc `to`.
AuthEnded(p, op, to) ==
    /\ auth'[p] # auth[p]
    /\ auth'[p].op = op /\ auth'[p].pc = to

\* What the caller of a failed request sees.
AuthError(r) == [result |-> r.result, message |-> r.message, out |-> r.out]

\* C28: a Register whose lower-cased email is the email of a stored user
\* fails with Conflict; a Register that fails creates no user; a Register
\* that succeeds stores exactly one user, with the lower-cased email, and
\* returns the access token signed for that user; nothing else creates a
\* user.
C28_Register ==
    [][/\ \A p \in DOMAIN auth :
            /\ ( /\ AuthArrived(p) /\ auth'[p].op = "register"
                 /\ \E i \in 1..Len(userModel) :
                        userModel[i].email = toLowerCase(auth'[p].email) )
               => /\ auth'[p].pc = "failed" /\ auth'[p].result = "Conflict"
                  /\ auth'[p].out = <<>>
            /\ AuthEnded(p, "register", "failed") => userModel' = userModel
            /\ AuthEnded(p, "register", "done")
               => LET email == toLowerCase(auth'[p].email)
                  IN /\ Len(userModel') = Len(userModel) + 1
                     /\ SubSeq(userModel', 1, Len(userModel)) = userModel
                     /\ userModel'[Len(userModel')].email = email
                     /\ auth'[p].out =
                           <<[accessToken |-> Sign(Len(userModel'), email)]>>
       /\ userModel' # userModel
          => \E p \in DOMAIN auth : AuthEnded(p, "register", "done")
      ]_vars

\* "A@B" was registered and is stored as "a@b", and a later Register of
\* another spelling of the same email failed with Conflict.
C28_Witness ==
    \E p \in DOMAIN auth, q \in DOMAIN auth :
        /\ auth[p].op = "register" /\ auth[p].pc = "done"
        /\ auth[p].email # toLowerCase(auth[p].email)
        /\ userModel[auth[p].user].email = toLowerCase(auth[p].email)
        /\ auth[q].op = "register" /\ auth[q].result = "Conflict"
        /\ auth[q].email # auth[p].email
        /\ Len(userModel) = 1

\* C29: a Login that returns a token found a user stored under the
\* lower-cased email whose hash the password matches, and the token is that
\* user's; a Login that fails, fails as Unauthorized with the one message
\* and no token, so that a failure for an unknown email and a failure for a
\* wrong password look the same.
C29_Login ==
    [][/\ \A p \in DOMAIN auth :
            /\ AuthEnded(p, "login", "done")
               => \E i \in 1..Len(userModel) :
                     /\ userModel[i].email = toLowerCase(auth'[p].email)
                     /\ BcryptCompare(auth'[p].password,
                                      userModel[i].passwordHash)
                     /\ auth'[p].out =
                           <<[accessToken |-> Sign(i, userModel[i].email)]>>
            /\ AuthEnded(p, "login", "failed")
               => /\ auth'[p].result = "Unauthorized"
                  /\ auth'[p].message = <<"Invalid credentials">>
                  /\ auth'[p].out = <<>>
       /\ \A p \in DOMAIN auth, q \in DOMAIN auth :
            ( /\ auth'[p].op = "login" /\ auth'[p].pc = "failed"
              /\ auth'[q].op = "login" /\ auth'[q].pc = "failed" )
            => AuthError(auth'[p]) = AuthError(auth'[q])
      ]_vars

\* Two Logins have failed, one for an email no user has and one for a wrong
\* password of a stored user.
C29_Witness ==
    \E p \in DOMAIN auth, q \in DOMAIN auth :
        /\ auth[p].op = "login" /\ auth[p].pc = "failed"
        /\ auth[p].user = Null
        /\ FindOne(toLowerCase(auth[p].email)) = Null
        /\ auth[q].op = "login" /\ auth[q].pc = "failed"
        /\ auth[q].user # Null
        /\ ~BcryptCompare(auth[q].password,
                          userModel[auth[q].user].passwordHash)

\* C30: a request that has returned or thrown never has an open session,
\* and every session a Rotate has opened is ended in the end, whether its
\* transaction commits or fails.
C30_SessionEnded ==
    \A p \in 1..NumProcs :
        /\ [](Free(p) => procs[p].session # "open")
        /\ (procs[p].session = "open") ~> (procs[p].session = "ended")

\* A Rotate whose transaction failed has thrown, its session ended, while
\* another Rotate holds an open session.
C30_Witness ==
    \E p \in DOMAIN procs, q \in DOMAIN procs :
        /\ procs[p].op = "rotate" /\ procs[p].result = "PersistenceError"
        /\ procs[p].session = "ended"
        /\ procs[q].op = "rotate" /\ procs[q].session = "open"

\* C31: after every step each audit event references a stored credential
\* whose userId is the event's userId, and an event appended by the step
\* was written for a request in flight whose caller is that owner: the
\* creator for GENERATED, a caller for whom findKeyOrFail passes for
\* REVOKED and ROTATED.  (The log is empty at the start.)
C31_AuditOwnerMatches ==
    [][/\ \A j \in 1..Len(logs') :
            /\ logs'[j].apiKeyId \in 1..Len(keys')
            /\ logs'[j].userId = keys'[logs'[j].apiKeyId].userId
       /\ \A j \in (Len(logs) + 1)..Len(logs') :
            \E p \in DOMAIN procs :
                /\ InFlight(p) /\ procs'[p] # procs[p]
                /\ logs'[j].userId = ObjectId(procs[p].userId)
                /\ logs'[j].action = "GENERATED"
                   => procs[p].op \in {"generate", "rotate"}
                /\ logs'[j].action \in {"REVOKED", "ROTATED"}
                   => /\ procs[p].op =
                           (IF logs'[j].action = "REVOKED" THEN "revoke"
                            ELSE "rotate")
                      /\ logs'[j].apiKeyId = ObjectId(procs[p].keyId)
                      /\ FindKeyOrFail(procs[p].keyId, procs[p].userId) = "ok"
      ]_vars

\* The log holds events of two owners, one of them a REVOKED or ROTATED
\* event, and the store holds credentials of both.
C31_Witness ==
    /\ \E i \in 1..Len(logs), j \in 1..Len(logs) :
          /\ logs[i].userId # logs[j].userId
          /\ logs[j].action \in {"REVOKED", "ROTATED"}
          /\ keys[logs[j].apiKeyId].userId = logs[j].userId
    /\ \E a \in 1..Len(keys), b \in 1..Len(keys) :
          keys[a].userId # keys[b].userId

\* The credentials of an owner, read off the Key Store.
Own(owner) == {i \in 1..Len(keys) : keys[i].userId = owner}

\* The step is a step of the request in slot p, made by caller b: it leaves
\* every credential of every other owner as it was, gives no other owner a
\* new credential and keeps every other owner's number of ACTIVE
\* credentials.
OthersUntouched(p) ==
    LET b == ObjectId(procs'[p].userId)
    IN procs'[p] # procs[p] =>
         \A a \in Users \ {b} :
            /\ Len(keys') >= Len(keys)
            /\ \A i \in Own(a) : keys'[i] = keys[i]
            /\ \A i \in (Len(keys) + 1)..Len(keys') : keys'[i].userId # a
            /\ Cardinality(ActiveOf(a)') = Cardinality(ActiveOf(a))

\* The outcome of the checks a request of caller a makes is the one its
\* inputs and a's own credentials give: the quota check counts a's ACTIVE
\* credentials, List returns a's credentials, and a Revoke or Rotate of one
\* of a's credentials is refused exactly when that credential is REVOKED.
\* (A rejected persistence call is no outcome of a check.)
OwnOutcome(p) ==
    LET a == ObjectId(procs'[p].userId)
        r == procs'[p]
        atCeiling == Cardinality(ActiveOf(a)) >= MAX_ACTIVE_KEYS
    IN /\ (Arrived(p) /\ r.op = "generate") =>
             IF atCeiling
             THEN r.pc = "failed" /\ r.result = "QuotaExceeded"
             ELSE r.pc = "insert"
       /\ (Arrived(p) /\ r.op = "list") =>
             {r.out[n].id : n \in 1..Len(r.out)} = Own(a)
       /\ (Arrived(p) /\ r.op \in {"revoke", "rotate"}) =>
             /\ ~IsValid(r.keyId) =>
                   r.pc = "failed" /\ r.result = "InvalidIdentity"
             /\ (IsValid(r.keyId) /\ ObjectId(r.keyId) \in Own(a)) =>
                   IF keys[ObjectId(r.keyId)].status = "REVOKED"
                   THEN r.pc = "failed" /\ r.result = "AlreadyRevoked"
                   ELSE r.pc \notin {"failed", "done"}
       /\ ( /\ Moved(p, "rotate", "count", r.pc) /\ r.pc # "count"
            /\ r.result # "PersistenceError" ) =>
             IF atCeiling
             THEN r.pc = "failed" /\ r.result = "QuotaExceeded"
             ELSE r.pc = "insert"

\* C32 (as claimed): no request of caller B changes a credential of another
\* owner A or A's number of ACTIVE credentials, and the outcome of a request
\* of A is the one A's own credentials give, whatever B holds: a Revoke or
\* Rotate of an id that is none of A's credentials is answered as if no
\* credential had that id.  Refuted: once B holds a credential, A's Revoke or
\* Rotate of its id is answered AccessDenied instead of NotFound.
C32_IsolationAsClaimed ==
    [][\A p \in DOMAIN procs :
          /\ OthersUntouched(p)
          /\ OwnOutcome(p)
          /\ ( /\ Arrived(p) /\ procs'[p].op \in {"revoke", "rotate"}
               /\ IsValid(procs'[p].keyId)
               /\ ObjectId(procs'[p].keyId) \notin
                      Own(ObjectId(procs'[p].userId)) )
             => /\ procs'[p].pc = "failed"
                /\ procs'[p].result = "NotFound"]_vars

\* C32: no request of caller B changes a credential of another owner A or
\* A's number of ACTIVE credentials; the quota check of a request of A
\* counts A's ACTIVE credentials only, List returns A's credentials only,
\* and a Revoke or Rotate of one of A's credentials is decided by that
\* credential; a Revoke or Rotate of an id that is none of A's credentials
\* fails and changes nothing, with NotFound when no credential has the id
\* and AccessDenied when another owner's credential has it.
C32_OwnerIsolation ==
    [][\A p \in DOMAIN procs :
          /\ OthersUntouched(p)
          /\ OwnOutcome(p)
          /\ ( /\ Arrived(p) /\ procs'[p].op \in {"revoke", "rotate"}
               /\ IsValid(procs'[p].keyId)
               /\ ObjectId(procs'[p].keyId) \notin
                      Own(ObjectId(procs'[p].userId)) )
             => /\ procs'[p].pc = "failed"
                /\ procs'[p].result =
                      (IF ObjectId(procs'[p].keyId) \in 1..Len(keys)
                       THEN "AccessDenied" ELSE "NotFound")
                /\ keys' = keys /\ logs' = logs]_vars

\* One owner holds MAX_ACTIVE_KEYS ACTIVE credentials, and a Generate of the
\* other owner has passed the quota check and stored its credential.
C32_Witness ==
    \E p \in DOMAIN procs, b \in Users :
        /\ procs[p].op = "generate" /\ procs[p].pc \in {"log", "done"}
        /\ ObjectId(procs[p].userId) # b
        /\ Cardinality(ActiveOf(b)) = MAX_ACTIVE_KEYS
        /\ Own(ObjectId(procs[p].userId)) # {}

====
